---- MODULE Spec2Model ----
(***************************************************************************)
(* Model of pyopensky's Impala wrapper (src/pyopensky/impala.py): the      *)
(* window loop of Impala.request, the cache / remote-shell steps of        *)
(* Impala._impala and Impala._connect, and the transcript parser           *)
(* Impala._read_cache.                                                     *)
(*                                                                         *)
(* Text is modelled as a sequence of characters.  A few multi-character    *)
(* tokens are kept atomic: the error marker "ERROR:", the idle prompt      *)
(* ":21000] > ", column names and cell values.  The alphabet has no space  *)
(* characters, so the " *" parts of the parser's regular expressions match *)
(* the empty string.                                                       *)
(***************************************************************************)
EXTENDS Integers, Sequences, FiniteSets, TLC

\* ------------------------------------------------------------------ bounds
MaxTime == 2      \* start and stop range over 0..MaxTime (time ticks)
MaxDelta == 2     \* date_delta ranges over 1..MaxDelta ticks
MaxRuns == 2      \* calls of Impala.request (or crashes) in one behaviour
RecvSize == 4     \* characters one recv returns at most (256 in the code)
MaxText == 3      \* characters of a transcript of the round-trip specification
MaxLines == 3     \* lines of a transcript stored by an earlier call

\* ------------------------------------------------------------- characters
TAB == "\t"
NL == "\n"
CR == "\r"
BAR == "|"
COMMA == ","
ERR == "ERROR:"
SENTINEL == ":21000] > "
NaN == "NaN"

\* Ticks in one partition ("hour") of the store.
Hour == 2

Min(a, b) == IF a <= b THEN a ELSE b
Max(a, b) == IF a >= b THEN a ELSE b

RECURSIVE Flatten(_)
Flatten(ss) == IF ss = <<>> THEN <<>> ELSE Head(ss) \o Flatten(Tail(ss))

\* ------------------------------------------------------------ time windows
FloorHour(t) == (t \div Hour) * Hour
CeilHour(t) == ((t + Hour - 1) \div Hour) * Hour

\* split_times(start, stop, by): the windows <<bt, at, bh, ah>> tiling
\* [start, stop) in steps of `by`, each with its enclosing partition bounds.
NbWindows(start, stop, by) ==
    IF stop <= start THEN 0 ELSE (stop - start + by - 1) \div by

SplitTimes(start, stop, by) ==
    [k \in 1..NbWindows(start, stop, by) |->
        LET bt == start + (k - 1) * by
            at == Min(start + k * by, stop)
        IN  <<bt, at, FloorHour(bt), CeilHour(at)>>]

\* ---------------------------------------------------------- command text
\* The two built-in templates: basic_request uses the four placeholders,
\* flarm_request only {before_hour} and {after_hour}.
Patterns == {"basic", "flarm"}

FormatRequestSwapped(pattern, w) ==
    IF pattern = "basic"
    THEN <<"select", "hour>=", w[1], "hour<", w[2], "time>=", w[3], "time<", w[4]>>
    ELSE <<"select", "hour>=", w[1], "hour<", w[2]>>

\* request_pattern.format(before_time=bt, after_time=at, before_hour=bh,
\* after_hour=ah) for the window w = <<bt, at, bh, ah>>.
FormatRequest(pattern, w) ==
    IF pattern = "basic"
    THEN <<"select", "hour>=", w[3], "hour<", w[4], "time>=", w[1], "time<", w[2]>>
    ELSE <<"select", "hour>=", w[3], "hour<", w[4]>>

DigestOfVerb(request) == <<"md5", request[1]>>

\* hashlib.md5(request).hexdigest(): the file name of the entry.  The digest
\* is taken as collision free: one name per command text.
Digest(request) == <<"md5", request>>

\* ------------------------------------------------------------- cache files
\* A file of the cache directory: `text` is what has reached the file, `gz`
\* says that it starts with the gzip magic b"\x1f\x8b\x08", and `eos` that
\* the gzip stream is finished (always TRUE for a plain file).
PlainFile(text) == [gz |-> FALSE, eos |-> TRUE, text |-> text]
GzipFile(text, eos) == [gz |-> TRUE, eos |-> eos, text |-> text]

\* "\t".join(columns), written by _impala as re.sub(", ", "\t", columns)
\* followed by "\n".
RECURSIVE JoinTab(_)
JoinTab(columns) ==
    IF columns = <<>> THEN <<>>
    ELSE IF Len(columns) = 1 THEN <<columns[1]>>
    ELSE <<columns[1], TAB>> \o JoinTab(Tail(columns))

HeaderLine(columns) == JoinTab(columns) \o <<NL>>

\* The first three bytes of a gzip file, b"\x1f\x8b\x08".
MAGIC == "1f8b08"

RECURSIVE Reverse(_)
Reverse(s) == IF s = <<>> THEN <<>> ELSE Append(Reverse(Tail(s)), Head(s))

\* The compressed stream gzip.open(cachename, "wt") writes after the magic,
\* and its decompression by gzip.open(cachename, "rt"): what is on the disk is
\* not the text, and decompressing gives the text back.
Deflate(text) == Reverse(text)
Inflate(bytes) == Reverse(bytes)

\* The bytes of a file in the cache directory.
DiskBytes(file) ==
    IF file.gz THEN <<MAGIC>> \o Deflate(file.text) ELSE file.text

\* Reading in text mode (cachename.open("r"), gzip.open(cachename, "rt"),
\* both with newline=None): "\r\n" and "\r" are returned as "\n".
RECURSIVE UniversalNewlines(_)
UniversalNewlines(text) ==
    IF text = <<>> THEN <<>>
    ELSE IF Head(text) = CR
         THEN IF Len(text) >= 2 /\ text[2] = NL
              THEN <<NL>> \o UniversalNewlines(Tail(Tail(text)))
              ELSE <<NL>> \o UniversalNewlines(Tail(text))
         ELSE <<Head(text)>> \o UniversalNewlines(Tail(text))

OpenCacheFilePlain(file) == UniversalNewlines(DiskBytes(file))

\* open_cache_file(cachename): the text the file object yields, the
\* compression being detected from the first bytes of the file.
OpenCacheFile(file) ==
    LET bytes == DiskBytes(file)
    IN  IF bytes # <<>> /\ Head(bytes) = MAGIC
        THEN UniversalNewlines(Inflate(Tail(bytes)))
        ELSE UniversalNewlines(bytes)

\* ------------------------------------------------------------------ parser
RECURSIVE SplitLines(_, _)
SplitLines(text, cur) ==
    IF text = <<>> THEN (IF cur = <<>> THEN <<>> ELSE <<cur>>)
    ELSE IF Head(text) = NL
         THEN <<Append(cur, NL)>> \o SplitLines(Tail(text), <<>>)
         ELSE SplitLines(Tail(text), Append(cur, Head(text)))

\* fh.readlines(): the lines of the text, each with its terminating "\n".
ReadLines(text) == SplitLines(text, <<>>)

\* re.search("\t", line)
HasTab(line) == \E i \in 1..Len(line) : line[i] = TAB
\* re.match(r"\|.*\|", line)
MatchBox(line) ==
    /\ Len(line) >= 2
    /\ line[1] = BAR
    /\ \E j \in 2..Len(line) : line[j] = BAR
HasCommaNever(line) == FALSE
\* "," in line
HasComma(line) == \E i \in 1..Len(line) : line[i] = COMMA
\* elt.startswith("ERROR:")
StartsWithError(line) == Len(line) >= 1 /\ line[1] = ERR

\* re.sub(" *\t *", ",", line) and re.sub(r" *\| *", ",", line)
SubChar(line, from, to) ==
    [i \in 1..Len(line) |-> IF line[i] = from THEN to ELSE line[i]]
\* x[1:-2]
Slice1m2(x) == SubSeq(x, 2, Len(x) - 2)

\* The for loop of _read_cache over the lines of the file: `s` is the
\* normalised buffer, `count` the number of matched lines, and return_df is
\* FALSE when the loop was left by `break`.
RECURSIVE ScanLines(_, _, _)
ScanLines(lines, s, count) ==
    IF lines = <<>> THEN [s |-> s, count |-> count, return_df |-> TRUE]
    ELSE LET line == Head(lines)
             tab == HasTab(line)
             s1 == IF tab THEN s \o SubChar(line, TAB, COMMA) \o <<NL>> ELSE s
             c1 == IF tab THEN count + 1 ELSE count
         IN  IF MatchBox(line)
             THEN IF HasComma(line)
                  THEN [s |-> s1, count |-> c1 + 1, return_df |-> FALSE]
                  ELSE ScanLines(Tail(lines),
                                 s1 \o Slice1m2(SubChar(line, BAR, COMMA)) \o <<NL>>,
                                 c1 + 1)
             ELSE ScanLines(Tail(lines), s1, c1)

RECURSIVE SplitFields(_, _)
SplitFields(chars, cur) ==
    IF chars = <<>> THEN <<cur>>
    ELSE IF Head(chars) = COMMA
         THEN <<cur>> \o SplitFields(Tail(chars), <<>>)
         ELSE SplitFields(Tail(chars), Append(cur, Head(chars)))

StripNL(line) ==
    IF line # <<>> /\ line[Len(line)] = NL THEN SubSeq(line, 1, Len(line) - 1)
    ELSE line

\* The cells of one line of the buffer; an empty cell reads as NaN.
Fields(line) ==
    LET f == SplitFields(StripNL(line), <<>>)
    IN  [i \in 1..Len(f) |-> IF f[i] = <<>> THEN <<NaN>> ELSE f[i]]

RECURSIVE KeepIdx(_, _, _)
KeepIdx(seq, keep, i) ==
    IF i > Len(seq) THEN <<>>
    ELSE (IF i \in keep THEN <<seq[i]>> ELSE <<>>) \o KeepIdx(seq, keep, i + 1)

Pad(f, n) == [i \in 1..n |-> IF i <= Len(f) THEN f[i] ELSE <<NaN>>]

StrColumnsNone == {}

\* dtype={"icao24": str, "callsign": str}: the columns read_csv keeps as text.
StrColumns == {"icao24", "callsign"}

\* The cells read_csv takes for integers, with the integer as pandas shows
\* it, and the cells it takes for numbers, with the float as pandas shows it.
IntValue == [c \in {"1", "2", "3", "0123"} |->
                IF c = "0123" THEN "123" ELSE c]
FloatValue == [c \in {"1", "2", "3", "0123", "1e5"} |->
                  CASE c = "1" -> "1.0" [] c = "2" -> "2.0" [] c = "3" -> "3.0"
                    [] c = "0123" -> "123.0" [] c = "1e5" -> "100000.0"]

IsNaN(cell) == cell = <<NaN>>
IsInt(cell) == Len(cell) = 1 /\ cell[1] \in DOMAIN IntValue
IsFloat(cell) == Len(cell) = 1 /\ cell[1] \in DOMAIN FloatValue

\* The type inference of read_csv on one column: a column named in dtype is
\* left as text; a column of integers becomes int64; a column of numbers, or
\* of integers and missing values, becomes float64; any other stays as read.
ConvertColumn(name, cells) ==
    IF Len(name) = 1 /\ name[1] \in StrColumns THEN cells
    ELSE IF \A j \in 1..Len(cells) : IsInt(cells[j])
    THEN [j \in 1..Len(cells) |-> <<IntValue[cells[j][1]]>>]
    ELSE IF \A j \in 1..Len(cells) : IsNaN(cells[j]) \/ IsFloat(cells[j])
    THEN [j \in 1..Len(cells) |->
             IF IsNaN(cells[j]) THEN cells[j] ELSE <<FloatValue[cells[j][1]]>>]
    ELSE cells

\* The rows with each column of values converted.
ConvertRows(header, rows) ==
    LET col(c) == ConvertColumn(header[c], [j \in 1..Len(rows) |-> rows[j].values[c]])
    IN  [j \in 1..Len(rows) |->
            [index |-> rows[j].index,
             values |-> [c \in 1..Len(header) |-> col(c)[j]]]]

\* pd.read_csv(s, dtype={"icao24": str, "callsign": str}) with the C parser.
\* Blank lines are skipped but counted.  The first record is the header; the
\* first data record fixes the width (cells beyond the header become the
\* index); a later record with more cells is the tokenizer's error
\* "Expected <n> fields in line <l>, saw <m>"; shorter records are padded.
ReadCsv(s) ==
    LET L == ReadLines(s)
        recs == KeepIdx([i \in 1..Len(L) |-> i],
                        {i \in 1..Len(L) : StripNL(L[i]) # <<>>}, 1)
        cells(j) == Fields(L[recs[j]])
    IN  IF recs = <<>> THEN [error |-> "EmptyDataError"]
        ELSE LET header == cells(1)
                 H == Len(header)
                 ex == IF Len(recs) >= 2 THEN Max(H, Len(cells(2))) ELSE H
                 bad == {j \in 3..Len(recs) : Len(cells(j)) > ex}
             IN  IF bad # {}
                 THEN [error |-> "ParserError",
                       line |-> recs[CHOOSE j \in bad : \A k \in bad : j <= k]]
                 ELSE [error |-> "none",
                       columns |-> header,
                       rows |-> ConvertRows(header,
                                   [j \in 1..(Len(recs) - 1) |->
                                       LET r == Pad(cells(j + 1), ex)
                                       IN  [index |-> SubSeq(r, 1, ex - H),
                                            values |-> SubSeq(r, ex - H + 1, ex)]])]

\* df.drop_duplicates(): the first of several rows with equal cells is kept.
DropDuplicates(rows) ==
    KeepIdx(rows,
            {j \in 1..Len(rows) : \A i \in 1..(j - 1) : rows[i].values # rows[j].values},
            1)

\* int(x.group(1)) for the match of r"line (\d)+," in the parser's message:
\* the group is repeated, so it holds the last digit of the line number.
LineNb(line) == line % 10

\* fh.readlines()[line_nb - 1] with Python's indexing: -1 is the last line.
HasContent(lines, line_nb) ==
    IF line_nb = 0 THEN Len(lines) >= 1 ELSE line_nb <= Len(lines)
Content(lines, line_nb) ==
    IF line_nb = 0 THEN lines[Len(lines)] ELSE lines[line_nb]

Outcome(kind, value, fs) == [kind |-> kind, value |-> value, fs |-> fs]

\* Exceptions that leave _read_cache (and, uncaught, _impala and request).
Exceptions == {"ImpalaError", "TypeError", "IndexError", "EOFError",
               "EmptyDataError", "ValueError", "RuntimeError", "SSHException",
               "OSError", "FileNotFoundError"}

\* Impala._read_cache(cachename) on the file `file`: what it returns or
\* raises (kind, value) and what it does to the file (fs): "keep", "unlink"
\* (cachename.unlink()) or "rename" (moved to gettempdir()).
ReadCache(file) ==
    IF file.gz /\ ~file.eos
    THEN Outcome("EOFError", <<>>, "keep")
    ELSE
    LET lines == ReadLines(OpenCacheFile(file))
        scan == ScanLines(lines, <<>>, 0)
        csv == ReadCsv(scan.s)
        errorScan ==
            IF \E i \in 1..Len(lines) : StartsWithError(lines[i])
            THEN Outcome("ImpalaError",
                         Flatten(SubSeq(lines, 1, Len(lines) - 1)), "unlink")
            ELSE Outcome("None", <<>>, "keep")
    IN  IF ~scan.return_df THEN Outcome("str", OpenCacheFile(file), "keep")
        ELSE IF scan.count > 0
        THEN IF csv.error = "EmptyDataError"
             THEN Outcome("EmptyDataError", <<>>, "keep")
             ELSE IF csv.error = "ParserError"
             THEN IF ~HasContent(lines, LineNb(csv.line))
                  THEN Outcome("IndexError", <<>>, "keep")
                  \* ParserError + str is a TypeError, raised after the rename
                  ELSE Outcome("TypeError", <<>>, "rename")
             ELSE IF Len(csv.rows) > 0
                  THEN Outcome("DataFrame",
                               [columns |-> csv.columns,
                                rows |-> DropDuplicates(csv.rows)], "keep")
                  ELSE errorScan
        ELSE errorScan

\* ---------------------------------------------------------------- request
IsFrame(df) == df.kind = "DataFrame"

ConcatColumns(cumul) ==
    LET all == Flatten([i \in 1..Len(cumul) |-> cumul[i].value.columns])
    IN  KeepIdx(all, {j \in 1..Len(all) : \A i \in 1..(j - 1) : all[i] # all[j]}, 1)

\* pd.concat(cumul): the rows of the frames in order over the union of their
\* columns (a cell of a column the frame lacks is NaN); a str among the
\* objects is a TypeError.
Concat(cumul) ==
    IF cumul = <<>> THEN Outcome("ValueError", <<>>, "keep")
    ELSE IF \E i \in 1..Len(cumul) : ~IsFrame(cumul[i])
    THEN Outcome("TypeError", <<>>, "keep")
    ELSE LET cols == ConcatColumns(cumul)
             realign(f, r) ==
                 [index |-> r.index,
                  values |-> [c \in 1..Len(cols) |->
                      IF \E k \in 1..Len(f.columns) : f.columns[k] = cols[c]
                      THEN r.values[CHOOSE k \in 1..Len(f.columns) : f.columns[k] = cols[c]]
                      ELSE <<NaN>>]]
         IN  Outcome("DataFrame",
                     [columns |-> cols,
                      rows |-> Flatten([i \in 1..Len(cumul) |->
                          [j \in 1..Len(cumul[i].value.rows) |->
                              realign(cumul[i].value, cumul[i].value.rows[j])]])],
                     "keep")

RequestResultNoCheck(cumul) == Concat(cumul)

\* The end of Impala.request: None without any frame, else pd.concat(cumul).
RequestResult(cumul) ==
    IF Len(cumul) = 0 THEN Outcome("None", <<>>, "keep") ELSE Concat(cumul)

\* ------------------------------------------------------------- the remote
Row2(a, b) == <<a, TAB, b, NL>>
Row3(a, b, c) == <<a, TAB, b, TAB, c, NL>>

\* What the shell prints before its first prompt.
Greeting == <<"Welcome", NL, SENTINEL>>

\* Transcripts the remote shell may answer a command with (option -B: rows
\* are tab separated); each ends with the idle prompt.
TEmpty == <<"Fetched 0 row(s)", NL, SENTINEL>>
TRows == Row2("1", "a1b2c3") \o Row2("2", "a1b2c3") \o <<SENTINEL>>
TError == <<ERR, " disk full", NL, SENTINEL>>
TRowsError == Row2("1", "a1b2c3") \o <<ERR, " disk full", NL, SENTINEL>>
TBadLast == Row2("1", "a1b2c3") \o Row3("2", "a1b2c3", "x") \o <<SENTINEL>>
TBadMid == Row2("1", "a1b2c3") \o Row3("2", "a1b2c3", "x")
             \o Row2("3", "a1b2c3") \o <<SENTINEL>>

Transcripts == {TEmpty, TRows, TError, TRowsError, TBadLast, TBadMid}

\* Python's None.
None == "<None>"

\* impala_username and impala_password of the configuration file: set,
\* empty, or missing (None).
Credentials == {<<"user", "secret">>, <<"", "">>, <<"user", "">>,
                <<None, None>>, <<"user", None>>}

\* The expected columns a caller passes to request.
Columns == <<"time", "icao24">>

\* ------------------------------------------------------------------- state
VARIABLES
    cache,        \* cache_dir: file name -> file
    tmpdir,       \* gettempdir(): file name -> file
    connected,    \* self.connected
    wire,         \* characters the remote has sent and recv has not returned
    channel,      \* the remote shell's channel: "none", "open" or "closed"
    username,     \* self.username (impala_username of the configuration)
    password,     \* self.password (impala_password of the configuration)
    request_pattern, \* the template the caller passes to request
    procs,        \* the processes that share the cache directory, when the
    pieces,       \* rawdata over several tables: what the tables done returned
                  \* model follows several of them: process -> its _impala call
    compress,     \* the compress flag the caller passes to request
    pc,           \* where the process is
    q,            \* start, stop, date_delta and cached of the running call
    sequence,     \* list(split_times(start_ts, stop_ts, date_delta))
    i,            \* index of the current window in sequence
    request,      \* the command text of the current window
    total,        \* the characters received so far
    cumul,        \* the frames of the windows done
    df,           \* what _impala returned or raised for the current window
    result,       \* what the last call of request returned or raised
    runs,         \* calls of request started so far
    hist,         \* history of the running call
    win,          \* history of the current window
    last,         \* summary of the last call of request
    prev          \* summary of the call before it

vars == <<cache, tmpdir, connected, channel, username, password, wire,
          request_pattern, procs, pieces, compress, pc, q,
          sequence, i, request, total, cumul, df, result, runs, hist, win,
          last, prev>>

NoFile == [gz |-> FALSE, eos |-> FALSE, text |-> <<"no such file">>]
NoQuery == [start |-> 0, stop |-> 0, date_delta |-> 1, cached |-> TRUE,
            progressbar |-> "True", method |-> "request",
            airport |-> "<None>", departure_airport |-> "<None>",
            arrival_airport |-> "<None>"]
NoOutcome == Outcome("none", <<>>, "keep")
NoRun == [ran |-> FALSE]
NoHist == [sends |-> 0, connects |-> 0, fresh |-> TRUE, touched |-> FALSE,
           removed |-> FALSE, failedAt |-> 0, wasConnected |-> FALSE,
           misses |-> 0, answers |-> 0, transports |-> 0, parsed |-> <<>>]
NoWin == [hit |-> FALSE, entry |-> NoFile, sent |-> FALSE, connected |-> FALSE,
          received |-> <<>>, transcript |-> <<>>]

cachename == Digest(request)

Exists(dir, name) == name \in DOMAIN dir
Remove(dir, name) == [n \in DOMAIN dir \ {name} |-> dir[n]]
Put(dir, name, file) == [n \in DOMAIN dir \cup {name} |-> IF n = name THEN file ELSE dir[n]]

\* The command texts of all windows of a call.
Texts(pattern, query) ==
    LET seq == SplitTimes(query.start, query.stop, query.date_delta)
    IN  {FormatRequest(pattern, seq[k]) : k \in 1..Len(seq)}

Init ==
    /\ cache = [n \in {} |-> NoFile]
    /\ tmpdir = [n \in {} |-> NoFile]
    /\ connected = FALSE
    /\ channel = "none"
    /\ \E c \in Credentials : username = c[1] /\ password = c[2]
    /\ wire = <<>>
    /\ request_pattern \in Patterns
    /\ procs = <<>>
    /\ pieces = <<>>
    /\ compress \in BOOLEAN
    /\ pc = "idle"
    /\ q = NoQuery
    /\ sequence = <<>>
    /\ i = 0
    /\ request = <<>>
    /\ total = <<>>
    /\ cumul = <<>>
    /\ df = NoOutcome
    /\ result = NoOutcome
    /\ runs = 0
    /\ hist = NoHist
    /\ win = NoWin
    /\ last = NoRun
    /\ prev = NoRun

\* ----------------------------------------------------------------- actions
Summary(res, crashed, h) ==
    IF crashed THEN [ran |-> TRUE, crashed |-> TRUE] ELSE
    [ran |-> TRUE, query |-> q, sends |-> h.sends, result |-> res,
     fresh |-> h.fresh, removed |-> h.removed, touched |-> h.touched,
     failedAt |-> h.failedAt, reached |-> i, frames |-> Len(cumul),
     connects |-> h.connects, transports |-> h.transports,
     misses |-> h.misses, crashed |-> crashed]

\* The call of request is over (returned, raised, or the process died): its
\* locals are gone.
EndRunWith(res, crashed, h) ==
    /\ result' = res
    /\ prev' = last
    /\ last' = Summary(res, crashed, h)
    /\ pc' = "idle"
    /\ q' = NoQuery
    /\ sequence' = <<>>
    /\ i' = 0
    /\ request' = <<>>
    /\ total' = <<>>
    /\ cumul' = <<>>
    /\ df' = NoOutcome
    /\ hist' = NoHist
    /\ win' = NoWin

EndRun(res, crashed) == EndRunWith(res, crashed, hist)

WindowListSwapped(start, stop, date_delta) == SplitTimes(stop, start, date_delta)

\* sequence = list(split_times(start_ts, stop_ts, date_delta))
WindowList(start, stop, date_delta) == SplitTimes(start, stop, date_delta)

\* The values of the progressbar argument: True (the default), False, and
\* two callables of the declared type Iterable -> Iterable supplied by the
\* caller: the builtin reversed, and one that gives the first item only.
Progressbars == {"True", "False", "reversed", "first"}

\* progressbar(sequence): what the for loop iterates over.  True selects
\* tqdm or iter, False selects iter, and both give the items of the list in
\* order; a callable of the caller gives whatever it returns.
Iterate(progressbar, seq) ==
    CASE progressbar = "True" -> seq
      [] progressbar = "False" -> seq
      [] progressbar = "reversed" -> Reverse(seq)
      [] progressbar = "first" -> SubSeq(seq, 1, Min(1, Len(seq)))

\* request(request_pattern, start, stop, columns=Columns, date_delta=...,
\* cached=..., compress=..., progressbar=...) up to the first iteration of
\* the for loop; sequence is what the loop iterates over.
RequestWith(start, stop, date_delta, cached, progressbar) ==
    /\ pc = "idle"
    /\ runs < MaxRuns
    /\ runs' = runs + 1
    /\ q' = [NoQuery EXCEPT !.start = start, !.stop = stop,
                            !.date_delta = date_delta, !.cached = cached,
                            !.progressbar = progressbar]
    /\ sequence' = Iterate(progressbar, WindowList(start, stop, date_delta))
    /\ i' = 1
    /\ cumul' = <<>>
    /\ hist' = [NoHist EXCEPT
                  !.fresh = \A text \in Texts(request_pattern, q') :
                                ~Exists(cache, Digest(text)),
                  !.wasConnected = connected]
    /\ pc' = "loop"
    /\ UNCHANGED <<cache, tmpdir, connected, channel, wire, request_pattern,
                   procs, pieces, username, password, compress, request, total, df,
                   result, win, last, prev>>

\* request with the default progressbar=True.
Request(start, stop, date_delta, cached) ==
    RequestWith(start, stop, date_delta, cached, "True")

\* The next window of the for loop: the command text is formatted and
\* _impala is entered.
NextWindow ==
    /\ pc = "loop"
    /\ i <= Len(sequence)
    /\ request' = FormatRequest(request_pattern, sequence[i])
    /\ win' = [NoWin EXCEPT
                 !.hit = Exists(cache, Digest(request')),
                 !.entry = IF Exists(cache, Digest(request'))
                           THEN cache[Digest(request')] ELSE NoFile]
    /\ pc' = "unlink"
    /\ UNCHANGED <<cache, tmpdir, connected, channel, wire, request_pattern,
                   procs, pieces, username, password, compress, q, sequence, i, total,
                   cumul, df, result, runs, hist, last, prev>>

\* The for loop is over: request returns None or the concatenation.
Return ==
    /\ pc = "loop"
    /\ i > Len(sequence)
    /\ EndRun(RequestResult(cumul), FALSE)
    /\ UNCHANGED <<cache, tmpdir, connected, channel, wire, request_pattern,
                   procs, pieces, username, password, compress, runs>>

NeedsUnlinkInverted(dir, name, cached) == Exists(dir, name) /\ cached
NeedsUnlinkNever(dir, name, cached) == FALSE

\* if cachename.exists() and not cached:
NeedsUnlink(dir, name, cached) == Exists(dir, name) /\ ~cached

Unlink ==
    /\ pc = "unlink"
    /\ IF NeedsUnlink(cache, cachename, q.cached)
       THEN /\ cache' = Remove(cache, cachename)
            /\ hist' = [hist EXCEPT !.touched = TRUE]
       ELSE UNCHANGED <<cache, hist>>
    /\ pc' = "exists"
    /\ UNCHANGED <<tmpdir, connected, channel, wire, request_pattern, procs, pieces,
                   username, password, compress, q, sequence, i, request,
                   total, cumul, df, result, runs, win, last, prev>>

IsMissAlways(dir, name) == TRUE

\* if not cachename.exists():
IsMiss(dir, name) == ~Exists(dir, name)

NeedsConnectAlways(isConnected) == TRUE

\* if not self.connected:
NeedsConnect(isConnected) == ~isConnected

\* The test of the cache, and on a miss the test of self.connected.
TestCache ==
    /\ pc = "exists"
    /\ pc' = IF IsMiss(cache, cachename)
             THEN (IF NeedsConnect(connected) THEN "connect" ELSE "send")
             ELSE "read"
    /\ hist' = IF IsMiss(cache, cachename)
               THEN [hist EXCEPT !.misses = @ + 1] ELSE hist
    /\ UNCHANGED <<cache, tmpdir, connected, channel, wire, request_pattern,
                   procs, pieces, username, password, compress, q, sequence, i,
                   request, total, cumul, df, result, runs, win, last, prev>>

\* if self.username == "" or self.password == "":
NotConfigured(user, pass) == user = "" \/ pass = ""

\* The credentials paramiko can authenticate with: a missing password, with
\* the agent and the key files switched off, leaves no authentication method;
\* a missing user name makes paramiko log in as the local user.
Authenticates(user, pass) == user \notin {"", None} /\ pass \notin {"", None}

\* _connect raises RuntimeError before it creates the SSH client.
ConnectRefuse ==
    /\ pc = "connect"
    /\ NotConfigured(username, password)
    /\ EndRun(Outcome("RuntimeError", <<>>, "keep"), FALSE)
    /\ UNCHANGED <<cache, tmpdir, connected, channel, wire, request_pattern,
                   procs, pieces, username, password, compress, runs>>

\* client.connect raises: the host is not reached ("network": no transport),
\* or the transport is open and the authentication fails ("auth").
\* self.connected is not assigned.
ConnectFail(why) ==
    /\ pc = "connect"
    /\ ~NotConfigured(username, password)
    /\ why = "auth" => ~Authenticates(username, password)
    /\ EndRunWith(Outcome("SSHException", <<why>>, "keep"), FALSE,
                  [hist EXCEPT !.transports = IF why = "auth" THEN @ + 1 ELSE @])
    /\ UNCHANGED <<cache, tmpdir, connected, channel, wire, request_pattern,
                   procs, pieces, username, password, compress, runs>>

\* _connect up to self.connected = True: the transport is open, the shell is
\* launched and prints its greeting.
Connect ==
    /\ pc = "connect"
    /\ ~NotConfigured(username, password)
    /\ Authenticates(username, password)
    /\ connected' = TRUE
    /\ channel' = "open"
    /\ wire' = Greeting
    /\ total' = <<>>
    /\ hist' = [hist EXCEPT !.connects = @ + 1, !.transports = @ + 1]
    /\ win' = [win EXCEPT !.connected = TRUE]
    /\ pc' = "greet"
    /\ UNCHANGED <<cache, tmpdir, request_pattern, procs, pieces, username, password,
                   compress, q, sequence, i, request, cumul, df, result, runs,
                   last, prev>>

\* The remote shell dies or the network drops: the channel is closed and
\* what the remote had not yet delivered is lost.
ChannelClose ==
    /\ pc \in {"greet", "send", "recv"}
    /\ channel = "open"
    /\ channel' = "closed"
    /\ wire' = <<>>
    /\ UNCHANGED <<cache, tmpdir, connected, request_pattern, procs, pieces, username,
                   password, compress, pc, q, sequence, i, request, total,
                   cumul, df, result, runs, hist, win, last, prev>>

\* total[-10:] == ":21000] > ": the idle prompt has arrived.
EndsWithPrompt(buffer) == Len(buffer) > 0 /\ buffer[Len(buffer)] = SENTINEL

SentinelSeenNever(buffer) == FALSE
SentinelSeenAnyData(buffer) == Len(buffer) > 0
SentinelSeenAtNewline(buffer) ==
    Len(buffer) > 0 /\ buffer[Len(buffer)] \in {SENTINEL, NL}

\* while len(total) == 0 or total[-10:] != ":21000] > ":
SentinelSeen(buffer) == Len(buffer) > 0 /\ buffer[Len(buffer)] = SENTINEL

\* b = self.stdout.channel.recv(256); total += b.decode()
Recv(n) ==
    /\ n \in 1..Min(RecvSize, Len(wire))
    /\ total' = total \o SubSeq(wire, 1, n)
    /\ wire' = SubSeq(wire, n + 1, Len(wire))

\* recv on a closed channel returns b"" at once: total += ""
RecvEof ==
    /\ channel = "closed"
    /\ wire = <<>>
    /\ total' = total
    /\ wire' = wire

\* One turn of the loop of _connect that reads the greeting.
RecvGreeting ==
    /\ pc = "greet"
    /\ (\E n \in 1..RecvSize : Recv(n)) \/ RecvEof
    /\ pc' = IF SentinelSeen(total') THEN "send" ELSE "greet"
    /\ UNCHANGED <<cache, tmpdir, connected, channel, request_pattern, procs, pieces,
                   username, password, compress, q, sequence, i, request,
                   cumul, df, result, runs, hist, win, last, prev>>

\* self.stdin.channel.send(request + ";\n"); total = "": the remote answers
\* with one of its transcripts, which comes after what is still unread.
Send ==
    /\ pc = "send"
    /\ channel = "open"
    /\ \E transcript \in Transcripts :
           /\ wire' = wire \o transcript
           /\ win' = [win EXCEPT !.sent = TRUE, !.transcript = transcript]
    /\ total' = <<>>
    /\ hist' = [hist EXCEPT !.sends = @ + 1]
    /\ pc' = "recv"
    /\ UNCHANGED <<cache, tmpdir, connected, channel, request_pattern, procs, pieces,
                   username, password, compress, q, sequence, i, request,
                   cumul, df, result, runs, last, prev>>

\* self.stdin.channel.send on a closed channel raises socket.error (an
\* OSError), which nothing catches; self.connected is not assigned.
SendFail ==
    /\ pc = "send"
    /\ channel = "closed"
    /\ EndRun(Outcome("OSError", <<>>, "keep"), FALSE)
    /\ UNCHANGED <<cache, tmpdir, connected, channel, wire, request_pattern,
                   procs, pieces, username, password, compress, runs>>

\* One turn of the loop of _impala that reads the response.
RecvResponse ==
    /\ pc = "recv"
    /\ (\E n \in 1..RecvSize : Recv(n)) \/ RecvEof
    /\ IF SentinelSeen(total')
       THEN pc' = "open" /\ win' = [win EXCEPT !.received = total']
       ELSE pc' = "recv" /\ win' = win
    /\ hist' = IF EndsWithPrompt(total') /\ ~EndsWithPrompt(total)
               THEN [hist EXCEPT !.answers = @ + 1] ELSE hist
    /\ UNCHANGED <<cache, tmpdir, connected, channel, request_pattern, procs, pieces,
                   username, password, compress, q, sequence, i, request,
                   cumul, df, result, runs, last, prev>>

\* gzip.open(cachename, "wt") or cachename.open("w"): the file exists from
\* here on.  Of a gzip file either nothing or the start of the stream has
\* reached the directory.
OpenCache ==
    /\ pc = "open"
    /\ \E file \in IF compress THEN {PlainFile(<<>>), GzipFile(<<>>, FALSE)}
                   ELSE {PlainFile(<<>>)} :
           cache' = Put(cache, cachename, file)
    /\ hist' = [hist EXCEPT !.touched = TRUE]
    /\ pc' = "write_header"
    /\ UNCHANGED <<tmpdir, connected, channel, wire, request_pattern, procs, pieces,
                   username, password, compress, q, sequence, i, request,
                   total, cumul, df, result, runs, win, last, prev>>

\* fh.write(re.sub(", ", "\t", columns)); fh.write("\n")
WriteHeader ==
    /\ pc = "write_header"
    /\ cache' = Put(cache, cachename,
                    IF compress THEN GzipFile(HeaderLine(Columns), FALSE)
                    ELSE PlainFile(HeaderLine(Columns)))
    /\ pc' = "write_total"
    /\ UNCHANGED <<tmpdir, connected, channel, wire, request_pattern, procs, pieces,
                   username, password, compress, q, sequence, i, request,
                   total, cumul, df, result, runs, hist, win, last, prev>>

\* The text of the file _impala writes for the columns and a transcript.
CacheText(columns, transcript) == HeaderLine(columns) \o transcript

\* fh.write(total) and the end of the with block, which closes the file.
WriteTotal ==
    /\ pc = "write_total"
    /\ cache' = Put(cache, cachename,
                    IF compress THEN GzipFile(CacheText(Columns, total), TRUE)
                    ELSE PlainFile(CacheText(Columns, total)))
    /\ pc' = "read"
    /\ UNCHANGED <<tmpdir, connected, channel, wire, request_pattern, procs, pieces,
                   username, password, compress, q, sequence, i, request,
                   total, cumul, df, result, runs, hist, win, last, prev>>

ParsedInMemory(dir, name, transcript) == PlainFile(transcript)

\* The file _read_cache is given: the one named cachename, on a hit and
\* after a write alike.
ParsedFile(dir, name, transcript) == dir[name]

\* return self._read_cache(cachename)
Read ==
    /\ pc = "read"
    /\ LET out == ReadCache(ParsedFile(cache, cachename, total))
       IN  /\ df' = out
           /\ cache' = IF out.fs = "keep" THEN cache ELSE Remove(cache, cachename)
           /\ tmpdir' = IF out.fs = "rename"
                        THEN Put(tmpdir, cachename, cache[cachename]) ELSE tmpdir
           /\ hist' = [hist EXCEPT !.touched = TRUE,
                                   !.removed = @ \/ out.fs # "keep",
                                   !.failedAt = IF out.kind \in Exceptions
                                                THEN i ELSE @]
    /\ pc' = "next"
    /\ UNCHANGED <<connected, channel, wire, request_pattern, procs, pieces, username,
                   password, compress, q, sequence, i, request, total, cumul,
                   result, runs, win, last, prev>>

AccumulateInFront(frames, out) ==
    IF out.kind = "None" THEN frames ELSE <<out>> \o frames

\* if df is None: continue; cumul.append(df)
Accumulate(frames, out) ==
    IF out.kind = "None" THEN frames ELSE Append(frames, out)

RaisesNever(out) == FALSE

\* An exception of _impala is not caught in request.
Raises(out) == out.kind \in Exceptions

\* The rest of the loop body: if df is None: continue; cumul.append(df)
Next_ ==
    /\ pc = "next"
    /\ IF Raises(df)
       THEN /\ EndRun(df, FALSE)
            /\ UNCHANGED <<cache, tmpdir, connected, channel, wire,
                           request_pattern, procs, pieces, username, password,
                           compress, runs>>
       ELSE /\ cumul' = Accumulate(cumul, df)
            /\ hist' = [hist EXCEPT !.parsed = Append(@, df)]
            /\ i' = i + 1
            /\ pc' = "loop"
            /\ UNCHANGED <<cache, tmpdir, connected, channel, wire,
                           request_pattern, procs, pieces, username, password,
                           compress, q, sequence, request, total, df, result,
                           runs, win, last, prev>>

\* The process dies at any point of a call; the directories survive it, the
\* next call is made by a new process.
Crash ==
    /\ pc # "idle"
    /\ EndRun(Outcome("crash", <<>>, "keep"), TRUE)
    /\ connected' = FALSE
    /\ channel' = "none"
    /\ wire' = <<>>
    /\ UNCHANGED <<cache, tmpdir, request_pattern, procs, pieces, username, password,
                   compress, runs>>

Next ==
    \/ \E start \in 0..MaxTime, stop \in 0..MaxTime, date_delta \in 1..MaxDelta,
          cached \in BOOLEAN : Request(start, stop, date_delta, cached)
    \/ NextWindow
    \/ Return
    \/ Unlink
    \/ TestCache
    \/ ConnectRefuse
    \/ \E why \in {"network", "auth"} : ConnectFail(why)
    \/ Connect
    \/ ChannelClose
    \/ RecvGreeting
    \/ Send
    \/ SendFail
    \/ RecvResponse
    \/ OpenCache
    \/ WriteHeader
    \/ WriteTotal
    \/ Read
    \/ Next_
    \/ Crash

Spec == Init /\ [][Next]_vars

\* ------------------------------------------------- the cache file round trip
\* The transcripts of the round trip: any text of line feeds, carriage
\* returns and other characters, closed by the idle prompt.
RoundTripTexts ==
    {text \o <<SENTINEL>> :
        text \in UNION {[1..n -> {"a", NL, CR}] : n \in 0..MaxText}}

\* _impala right after its recv loop, with any transcript received.
InitRoundTrip ==
    /\ cache = [n \in {} |-> NoFile]
    /\ tmpdir = [n \in {} |-> NoFile]
    /\ connected = TRUE
    /\ channel = "open"
    /\ username = "user" /\ password = "secret"
    /\ wire = <<>>
    /\ request_pattern = "basic"
    /\ procs = <<>>
    /\ pieces = <<>>
    /\ compress \in BOOLEAN
    /\ pc = "open"
    /\ q = [NoQuery EXCEPT !.stop = 1]
    /\ sequence = WindowList(0, 1, 1)
    /\ i = 1
    /\ request = FormatRequest(request_pattern, sequence[1])
    /\ total \in RoundTripTexts
    /\ cumul = <<>>
    /\ df = NoOutcome
    /\ result = NoOutcome
    /\ runs = 1
    /\ hist = [NoHist EXCEPT !.sends = 1, !.misses = 1, !.answers = 1,
                             !.wasConnected = TRUE]
    /\ win = [NoWin EXCEPT !.sent = TRUE, !.received = total,
                           !.transcript = total]
    /\ last = NoRun
    /\ prev = NoRun

\* A later call, with its own compress flag, opens the entry with
\* open_cache_file and reads all of it (fh.readlines()).
ReadBack(flag) ==
    /\ pc = "read"
    /\ compress' = flag
    /\ df' = Outcome("text", OpenCacheFile(cache[cachename]), "keep")
    /\ pc' = "done"
    /\ UNCHANGED <<cache, tmpdir, connected, channel, wire, request_pattern,
                   procs, pieces, username, password, q, sequence, i, request, total,
                   cumul, result, runs, hist, win, last, prev>>

NextRoundTrip ==
    \/ OpenCache
    \/ WriteHeader
    \/ WriteTotal
    \/ \E flag \in BOOLEAN : ReadBack(flag)

SpecRoundTrip == InitRoundTrip /\ [][NextRoundTrip]_vars

\* ------------------------------------------- calls served from the cache
\* The command texts of all windows of all calls of the model.
CommandTexts ==
    UNION {Texts(pattern, [NoQuery EXCEPT !.start = start,
                                           !.stop = stop,
                                           !.date_delta = date_delta]) :
              pattern \in Patterns, start \in 0..MaxTime, stop \in 0..MaxTime,
              date_delta \in 1..MaxDelta}

\* The cache as earlier calls have left it: every command has an entry, with
\* the header line of the columns the earlier call was given and a transcript
\* of rows (tab separated or box drawn) and messages.
BoxRow(a, b) == <<BAR, a, BAR, b, BAR, NL>>
BoxComma(a, b) == <<BAR, a, COMMA, b, BAR, NL>>
BoxTab(a, b) == <<BAR, a, TAB, b, BAR, NL>>

StoredLines ==
    {Row2("1", "a1b2c3"), Row2("2", "0123"), Row2("3", "1e5"),
     Row3("1", "2", "a1b2c3"), Row3("3", "2", "a1b2c3"),
     BoxRow("1", "a1b2c3"), BoxComma("a", "b"), BoxTab("1", "a1b2c3"),
     <<ERR, " disk full", NL>>}

StoredTranscripts ==
    {Flatten(lines) \o <<SENTINEL>> :
        lines \in UNION {[1..n -> StoredLines] : n \in 0..MaxLines}}

\* The columns the earlier call was given: those of this call, or the same
\* names in another order.
StoredColumns == {Columns, <<"icao24", "time">>}

InitStored ==
    /\ \E transcript \in StoredTranscripts, columns \in StoredColumns,
          gz \in BOOLEAN :
           cache = [name \in {Digest(text) : text \in CommandTexts} |->
                       IF gz THEN GzipFile(CacheText(columns, transcript), TRUE)
                       ELSE PlainFile(CacheText(columns, transcript))]
    /\ tmpdir = [n \in {} |-> NoFile]
    /\ connected = FALSE
    /\ channel = "none"
    /\ username = "user" /\ password = "secret"
    /\ wire = <<>>
    /\ request_pattern = "basic"
    /\ procs = <<>>
    /\ pieces = <<>>
    /\ compress = FALSE
    /\ pc = "idle"
    /\ q = NoQuery
    /\ sequence = <<>>
    /\ i = 0
    /\ request = <<>>
    /\ total = <<>>
    /\ cumul = <<>>
    /\ df = NoOutcome
    /\ result = NoOutcome
    /\ runs = MaxRuns - 1
    /\ hist = NoHist
    /\ win = NoWin
    /\ last = NoRun
    /\ prev = NoRun

NextStored ==
    \/ \E stop \in 1..MaxTime : Request(0, stop, 1, TRUE)
    \/ NextWindow
    \/ Unlink
    \/ TestCache
    \/ Read
    \/ Next_
    \/ Return

SpecStored == InitStored /\ [][NextStored]_vars

\* ------------------------------------------------- calls with an observer
\* The entry of a window holds the rows the backend has for it: one row
\* whose time tells the windows apart.
ProgressTranscript(text) ==
    (IF Len(text) >= 7 /\ text[7] = 0 THEN Row2("1", "a1b2c3")
     ELSE Row2("2", "a1b2c3"))
        \o <<SENTINEL>>

\* Every window of every call is in the cache, written by earlier calls.
InitProgress ==
    /\ \E gz \in BOOLEAN :
           cache = [name \in {Digest(text) : text \in CommandTexts} |->
                       LET text == name[2]
                           stored == CacheText(Columns, ProgressTranscript(text))
                       IN  IF gz THEN GzipFile(stored, TRUE)
                           ELSE PlainFile(stored)]
    /\ tmpdir = [n \in {} |-> NoFile]
    /\ connected = FALSE
    /\ channel = "none"
    /\ username = "user" /\ password = "secret"
    /\ wire = <<>>
    /\ request_pattern = "basic"
    /\ procs = <<>>
    /\ pieces = <<>>
    /\ compress = FALSE
    /\ pc = "idle"
    /\ q = NoQuery
    /\ sequence = <<>>
    /\ i = 0
    /\ request = <<>>
    /\ total = <<>>
    /\ cumul = <<>>
    /\ df = NoOutcome
    /\ result = NoOutcome
    /\ runs = 0
    /\ hist = NoHist
    /\ win = NoWin
    /\ last = NoRun
    /\ prev = NoRun

NextProgress ==
    \/ \E stop \in 1..MaxTime, progressbar \in Progressbars :
          RequestWith(0, stop, 1, TRUE, progressbar)
    \/ NextWindow
    \/ Unlink
    \/ TestCache
    \/ Read
    \/ Next_
    \/ Return

SpecProgress == InitProgress /\ [][NextProgress]_vars

\* ------------------------------------------------- an interrupted connect
\* The caller interrupts _connect while it waits for the greeting (Ctrl-C in
\* an interactive session): KeyboardInterrupt leaves request, the process,
\* the Impala object and the channel live on.
Interrupt ==
    /\ pc = "greet"
    /\ EndRun(Outcome("KeyboardInterrupt", <<>>, "keep"), FALSE)
    /\ UNCHANGED <<cache, tmpdir, connected, channel, wire, request_pattern,
                   procs, pieces, username, password, compress, runs>>

\* A new Impala object with credentials, on an empty cache directory.
InitInterrupt ==
    /\ cache = [n \in {} |-> NoFile]
    /\ tmpdir = [n \in {} |-> NoFile]
    /\ connected = FALSE
    /\ channel = "none"
    /\ username = "user" /\ password = "secret"
    /\ wire = <<>>
    /\ request_pattern = "basic"
    /\ procs = <<>>
    /\ pieces = <<>>
    /\ compress = FALSE
    /\ pc = "idle"
    /\ q = NoQuery
    /\ sequence = <<>>
    /\ i = 0
    /\ request = <<>>
    /\ total = <<>>
    /\ cumul = <<>>
    /\ df = NoOutcome
    /\ result = NoOutcome
    /\ runs = 0
    /\ hist = NoHist
    /\ win = NoWin
    /\ last = NoRun
    /\ prev = NoRun

NextInterrupt ==
    \/ \E cached \in BOOLEAN : Request(0, 1, 1, cached)
    \/ NextWindow
    \/ Return
    \/ Unlink
    \/ TestCache
    \/ Connect
    \/ RecvGreeting
    \/ Interrupt
    \/ Send
    \/ RecvResponse
    \/ OpenCache
    \/ WriteHeader
    \/ WriteTotal
    \/ Read
    \/ Next_

SpecInterrupt == InitInterrupt /\ [][NextInterrupt]_vars

\* --------------------------------------------- rawdata over several tables
\* rawdata with table_name a list (or None: all of _raw_tables) calls itself
\* for each table in turn, keeps what is not None and concatenates.
Tables == <<"position_data4", "velocity_data4">>

\* candidates = [df for df in pieces if df is not None];
\* return pd.concat(candidates)
Candidates(seq) == SelectSeq(seq, LAMBDA piece : piece.kind # "None")
RawdataResult(seq) == Concat(Candidates(seq))

\* What the tables hold for the windows of the call, as earlier calls left
\* it in the cache.
TableTranscripts == {TEmpty, TRows, <<SENTINEL>>}

InitTables ==
    /\ \E transcript \in TableTranscripts, gz \in BOOLEAN :
           cache = [name \in {Digest(text) : text \in CommandTexts} |->
                       IF gz THEN GzipFile(CacheText(Columns, transcript), TRUE)
                       ELSE PlainFile(CacheText(Columns, transcript))]
    /\ tmpdir = [n \in {} |-> NoFile]
    /\ connected = FALSE
    /\ channel = "none"
    /\ username = "user" /\ password = "secret"
    /\ wire = <<>>
    /\ request_pattern = "basic"
    /\ procs = <<>>
    /\ pieces = <<>>
    /\ compress = FALSE
    /\ pc = "idle"
    /\ q = NoQuery
    /\ sequence = <<>>
    /\ i = 0
    /\ request = <<>>
    /\ total = <<>>
    /\ cumul = <<>>
    /\ df = NoOutcome
    /\ result = NoOutcome
    /\ runs = 0
    /\ hist = NoHist
    /\ win = NoWin
    /\ last = NoRun
    /\ prev = NoRun

\* The call of rawdata for the next table of the list, with the arguments of
\* the outer call.
TableCall(start, stop, date_delta) ==
    /\ Len(pieces) = runs
    /\ runs < Len(Tables)
    /\ runs > 0 => (last.query.start = start /\ last.query.stop = stop
                      /\ last.query.date_delta = date_delta)
    /\ pc = "idle"
    /\ runs' = runs + 1
    /\ q' = [NoQuery EXCEPT !.start = start, !.stop = stop,
                            !.date_delta = date_delta, !.method = "rawdata"]
    /\ sequence' = WindowList(start, stop, date_delta)
    /\ i' = 1
    /\ cumul' = <<>>
    /\ hist' = [NoHist EXCEPT
                  !.fresh = \A text \in Texts(request_pattern, q') :
                                ~Exists(cache, Digest(text)),
                  !.wasConnected = connected]
    /\ pc' = "loop"
    /\ UNCHANGED <<cache, tmpdir, connected, channel, wire, request_pattern,
                   procs, pieces, username, password, compress, request,
                   total, df, result, win, last, prev>>

\* The call for one table has returned: its result is the next of pieces.
\* After the last table the outer call returns pd.concat(candidates).
TablePiece ==
    /\ pc = "idle"
    /\ Len(pieces) < runs
    /\ pieces' = Append(pieces, result)
    /\ IF Len(pieces') = Len(Tables)
       THEN pc' = "done" /\ result' = RawdataResult(pieces')
       ELSE pc' = "idle" /\ result' = result
    /\ UNCHANGED <<cache, tmpdir, connected, channel, wire, request_pattern,
                   procs, username, password, compress, q, sequence, i,
                   request, total, cumul, df, runs, hist, win, last, prev>>

NextTables ==
    \/ \E start \in 0..MaxTime, stop \in 0..MaxTime, date_delta \in 1..MaxDelta :
          TableCall(start, stop, date_delta)
    \/ TablePiece
    \/ NextWindow
    \/ Unlink
    \/ TestCache
    \/ Read
    \/ Next_
    \/ Return

SpecTables == InitTables /\ [][NextTables]_vars

\* ------------------------------------------------ a remote that answers
\* The remote shell keeps its channel open and ends its greeting and every
\* response with its prompt; the process lives on.  The steps of a call are
\* those of sequential code: one that can be taken is taken (recv returns as
\* soon as bytes are there), which is the weak fairness of RunStep.
RunStep ==
    \/ NextWindow
    \/ Return
    \/ Unlink
    \/ TestCache
    \/ ConnectFail("network")
    \/ Connect
    \/ RecvGreeting
    \/ Send
    \/ RecvResponse
    \/ OpenCache
    \/ WriteHeader
    \/ WriteTotal
    \/ Read
    \/ Next_

NextLive ==
    \/ \E stop \in 0..MaxTime, date_delta \in 1..MaxDelta, cached \in BOOLEAN :
          Request(0, stop, date_delta, cached)
    \/ Interrupt
    \/ RunStep

SpecLive == InitInterrupt /\ [][NextLive]_vars /\ WF_vars(RunStep)

\* ------------------------------------------------ the reads, byte by byte
\* The idle prompt ends with these ten characters.
PROMPT == <<":", "2", "1", "0", "0", "0", "]", " ", ">", " ">>

\* The characters of a response: ASCII ones, and one that UTF-8 encodes in
\* two bytes.
ReadChars == {"a", " ", "eacute"}

\* The bytes of a text in UTF-8, as the remote shell sends them.
RECURSIVE Encode(_)
Encode(chars) ==
    IF chars = <<>> THEN <<>>
    ELSE (IF Head(chars) = "eacute" THEN <<"c3", "a9">> ELSE <<Head(chars)>>)
            \o Encode(Tail(chars))

\* b.decode(): the characters of the bytes of one recv; a lead byte without
\* its continuation byte, or a continuation byte without its lead byte, is
\* a UnicodeDecodeError.
RECURSIVE Decode(_)
Decode(bytes) ==
    IF bytes = <<>> THEN [ok |-> TRUE, chars |-> <<>>]
    ELSE IF Head(bytes) = "a9" THEN [ok |-> FALSE, chars |-> <<>>]
    ELSE IF Head(bytes) = "c3"
         THEN IF Len(bytes) >= 2 /\ bytes[2] = "a9"
              THEN LET rest == Decode(SubSeq(bytes, 3, Len(bytes)))
                   IN  [ok |-> rest.ok, chars |-> <<"eacute">> \o rest.chars]
              ELSE [ok |-> FALSE, chars |-> <<>>]
    ELSE LET rest == Decode(Tail(bytes))
         IN  [ok |-> rest.ok, chars |-> <<Head(bytes)>> \o rest.chars]

\* total[-10:] == ":21000] > " on the characters of total.
PromptSeen(buffer) ==
    /\ Len(buffer) >= Len(PROMPT)
    /\ SubSeq(buffer, Len(buffer) - Len(PROMPT) + 1, Len(buffer)) = PROMPT

\* What the remote shell prints for a command: some text, then its prompt.
Responses ==
    {body \o PROMPT :
        body \in UNION {[1..n -> ReadChars] : n \in 0..MaxText}}

\* _impala right after send: the response is on its way.
InitRead ==
    /\ cache = [n \in {} |-> NoFile]
    /\ tmpdir = [n \in {} |-> NoFile]
    /\ connected = TRUE
    /\ channel = "open"
    /\ username = "user" /\ password = "secret"
    /\ request_pattern = "basic"
    /\ procs = <<>>
    /\ pieces = <<>>
    /\ compress = FALSE
    /\ pc = "recv"
    /\ q = [NoQuery EXCEPT !.stop = 1]
    /\ sequence = WindowList(0, 1, 1)
    /\ i = 1
    /\ request = FormatRequest(request_pattern, sequence[1])
    /\ total = <<>>
    /\ \E response \in Responses :
           /\ wire = Encode(response)
           /\ win = [NoWin EXCEPT !.sent = TRUE, !.transcript = response]
    /\ cumul = <<>>
    /\ df = NoOutcome
    /\ result = NoOutcome
    /\ runs = 1
    /\ hist = [NoHist EXCEPT !.sends = 1, !.misses = 1, !.wasConnected = TRUE]
    /\ last = NoRun
    /\ prev = NoRun

\* One turn of the loop: b = self.stdout.channel.recv(256) gives some of the
\* bytes that are there, at most the size asked for; total += b.decode();
\* then the test of the while.
RecvDecode ==
    /\ pc = "recv"
    /\ \E n \in 1..Min(RecvSize, Len(wire)) :
          LET b == Decode(SubSeq(wire, 1, n))
          IN  /\ wire' = SubSeq(wire, n + 1, Len(wire))
              /\ IF b.ok
                 THEN /\ total' = total \o b.chars
                      /\ pc' = IF PromptSeen(total') THEN "open" ELSE "recv"
                      /\ win' = IF PromptSeen(total')
                                THEN [win EXCEPT !.received = total'] ELSE win
                      /\ UNCHANGED <<q, sequence, i, request, cumul, df,
                                     result, hist, last, prev>>
                 ELSE EndRun(Outcome("UnicodeDecodeError", <<>>, "keep"), FALSE)
    /\ UNCHANGED <<cache, tmpdir, connected, channel, request_pattern, procs, pieces,
                   username, password, compress, runs>>

NextRead == RecvDecode

SpecRead == InitRead /\ [][NextRead]_vars

\* ------------------------------------------------ the airport arguments
\* flightlist, history and rawdata take airport, departure_airport and
\* arrival_airport (None by default), test them, and then run the same loop
\* over the windows as request, one call of _impala per window.
Methods == {"flightlist", "history", "rawdata"}
Airports == {None, "LFBO"}

\* The tests of the three methods that raise RuntimeError for the airport
\* arguments; callsign and bounds are left to None.
AirportsRaise(method, airport, departure_airport, arrival_airport) ==
    CASE method = "flightlist" ->
           \* if airport: ... if departure_airport is not None or
           \* arrival_airport is not None: raise
           /\ airport # None
           /\ (departure_airport # None \/ arrival_airport # None)
      [] method = "history" ->
           \* each of the three branches tests airport
           IF arrival_airport # None /\ departure_airport # None
           THEN airport # None
           ELSE IF arrival_airport # None THEN airport # None
           ELSE IF departure_airport # None THEN airport # None
           ELSE FALSE
      [] method = "rawdata" ->
           \* only the branch of both tests airport
           IF arrival_airport # None /\ departure_airport # None
           THEN airport # None
           ELSE FALSE

\* A call of one of the three methods, up to the tests of its arguments.
Call(method, airport, departure_airport, arrival_airport, stop, cached) ==
    /\ pc = "idle"
    /\ runs < MaxRuns
    /\ runs' = runs + 1
    /\ q' = [NoQuery EXCEPT !.start = 0, !.stop = stop, !.cached = cached,
                            !.method = method, !.airport = airport,
                            !.departure_airport = departure_airport,
                            !.arrival_airport = arrival_airport]
    /\ cumul' = <<>>
    /\ hist' = [NoHist EXCEPT
                  !.fresh = \A text \in Texts(request_pattern, q') :
                                ~Exists(cache, Digest(text)),
                  !.wasConnected = connected]
    /\ pc' = "args"
    /\ UNCHANGED <<cache, tmpdir, connected, channel, wire, request_pattern,
                   procs, pieces, username, password, compress, request, total, df,
                   result, win, last, prev, sequence, i>>

\* The tests, and the list of windows when they pass.
CheckAirports ==
    /\ pc = "args"
    /\ IF AirportsRaise(q.method, q.airport, q.departure_airport,
                        q.arrival_airport)
       THEN EndRun(Outcome("RuntimeError", <<>>, "keep"), FALSE)
       ELSE /\ sequence' = Iterate(q.progressbar,
                                   WindowList(q.start, q.stop, q.date_delta))
            /\ i' = 1
            /\ pc' = "loop"
            /\ UNCHANGED <<q, request, total, cumul, df, result, hist, win,
                           last, prev>>
    /\ UNCHANGED <<cache, tmpdir, connected, channel, wire, request_pattern,
                   procs, pieces, username, password, compress, runs>>

InitAirports ==
    /\ cache = [n \in {} |-> NoFile]
    /\ tmpdir = [n \in {} |-> NoFile]
    /\ connected = FALSE
    /\ channel = "none"
    /\ username = "user" /\ password = "secret"
    /\ wire = <<>>
    /\ request_pattern = "basic"
    /\ procs = <<>>
    /\ pieces = <<>>
    /\ compress = FALSE
    /\ pc = "idle"
    /\ q = NoQuery
    /\ sequence = <<>>
    /\ i = 0
    /\ request = <<>>
    /\ total = <<>>
    /\ cumul = <<>>
    /\ df = NoOutcome
    /\ result = NoOutcome
    /\ runs = 0
    /\ hist = NoHist
    /\ win = NoWin
    /\ last = NoRun
    /\ prev = NoRun

NextAirports ==
    \/ \E method \in Methods, airport \in Airports,
          departure_airport \in Airports, arrival_airport \in Airports,
          cached \in BOOLEAN :
          Call(method, airport, departure_airport, arrival_airport, 1, cached)
    \/ CheckAirports
    \/ NextWindow
    \/ Return
    \/ Unlink
    \/ TestCache
    \/ Connect
    \/ RecvGreeting
    \/ Send
    \/ RecvResponse
    \/ OpenCache
    \/ WriteHeader
    \/ WriteTotal
    \/ Read
    \/ Next_

SpecAirports == InitAirports /\ [][NextAirports]_vars

\* ------------------------------------- processes sharing the cache directory
\* Two processes call _impala with the same command text and the same cache
\* directory, each on a session of its own.  `seen` is the file _read_cache
\* was given.
Procs == {1, 2}

\* What the remote answers to the command: the same for both processes.
ConcurrentTranscripts == {TEmpty, TRows, TError}

NoProc == [pc |-> "unlink", cached |-> TRUE, transcript |-> <<>>,
           total |-> <<>>, df |-> NoOutcome, seen |-> NoFile]

\* All variables of the single call, which stand still here.
callVars == <<pieces, connected, channel, username, password, wire, request_pattern,
              compress, pc, q, sequence, i, request, total, cumul, df, result,
              runs, hist, win, last, prev>>

InitConcurrent ==
    /\ \E transcript \in ConcurrentTranscripts :
           /\ procs \in [Procs -> {[NoProc EXCEPT !.cached = c,
                                                  !.transcript = transcript] :
                                       c \in BOOLEAN}]
           /\ \E stored \in BOOLEAN, gz \in BOOLEAN,
                 req \in {FormatRequest("basic", <<0, 1, 0, Hour>>)} :
                  /\ request = req
                  /\ cache = IF stored
                             THEN Put([n \in {} |-> NoFile], Digest(req),
                                      IF gz THEN GzipFile(CacheText(Columns, transcript), TRUE)
                                      ELSE PlainFile(CacheText(Columns, transcript)))
                             ELSE [n \in {} |-> NoFile]
    /\ tmpdir = [n \in {} |-> NoFile]
    /\ connected = FALSE
    /\ channel = "none"
    /\ username = "user" /\ password = "secret"
    /\ wire = <<>>
    /\ request_pattern = "basic"
    /\ pieces = <<>>
    /\ compress \in BOOLEAN
    /\ pc = "idle"
    /\ q = NoQuery
    /\ sequence = <<>>
    /\ i = 0
    /\ total = <<>>
    /\ cumul = <<>>
    /\ df = NoOutcome
    /\ result = NoOutcome
    /\ runs = 0
    /\ hist = NoHist
    /\ win = NoWin
    /\ last = NoRun
    /\ prev = NoRun

\* if cachename.exists() and not cached: cachename.unlink()
ProcUnlink(self) ==
    /\ procs[self].pc = "unlink"
    /\ cache' = IF NeedsUnlink(cache, cachename, procs[self].cached)
                THEN Remove(cache, cachename) ELSE cache
    /\ procs' = [procs EXCEPT ![self].pc = "exists"]
    /\ UNCHANGED <<tmpdir, callVars>>

\* if not cachename.exists():
ProcTestCache(self) ==
    /\ procs[self].pc = "exists"
    /\ procs' = [procs EXCEPT ![self].pc =
                    IF IsMiss(cache, cachename) THEN "execute" ELSE "read"]
    /\ UNCHANGED <<cache, tmpdir, callVars>>

\* The miss branch up to the end of the recv loop, on the session of the
\* process: total is the whole transcript.
ProcExecute(self) ==
    /\ procs[self].pc = "execute"
    /\ procs' = [procs EXCEPT ![self].pc = "open",
                              ![self].total = procs[self].transcript]
    /\ UNCHANGED <<cache, tmpdir, callVars>>

\* gzip.open(cachename, "wt") or cachename.open("w"): the file is created or
\* cut to nothing.
ProcOpenCache(self) ==
    /\ procs[self].pc = "open"
    /\ \E file \in IF compress THEN {PlainFile(<<>>), GzipFile(<<>>, FALSE)}
                   ELSE {PlainFile(<<>>)} :
           cache' = Put(cache, cachename, file)
    /\ procs' = [procs EXCEPT ![self].pc = "write_header"]
    /\ UNCHANGED <<tmpdir, callVars>>

\* fh.write(re.sub(", ", "\t", columns)); fh.write("\n")
ProcWriteHeader(self) ==
    /\ procs[self].pc = "write_header"
    /\ cache' = Put(cache, cachename,
                    IF compress THEN GzipFile(HeaderLine(Columns), FALSE)
                    ELSE PlainFile(HeaderLine(Columns)))
    /\ procs' = [procs EXCEPT ![self].pc = "write_total"]
    /\ UNCHANGED <<tmpdir, callVars>>

\* fh.write(total) and the end of the with block.
ProcWriteTotal(self) ==
    /\ procs[self].pc = "write_total"
    /\ cache' = Put(cache, cachename,
                    IF compress
                    THEN GzipFile(CacheText(Columns, procs[self].total), TRUE)
                    ELSE PlainFile(CacheText(Columns, procs[self].total)))
    /\ procs' = [procs EXCEPT ![self].pc = "read"]
    /\ UNCHANGED <<tmpdir, callVars>>

\* return self._read_cache(cachename); open_cache_file raises
\* FileNotFoundError when the other process has removed the file.
ProcRead(self) ==
    /\ procs[self].pc = "read"
    /\ IF ~Exists(cache, cachename)
       THEN /\ procs' = [procs EXCEPT
                           ![self].pc = "done",
                           ![self].df = Outcome("FileNotFoundError", <<>>, "keep")]
            /\ UNCHANGED <<cache, tmpdir>>
       ELSE LET file == ParsedFile(cache, cachename, procs[self].total)
                out == ReadCache(file)
            IN  /\ procs' = [procs EXCEPT ![self].pc = "done",
                                          ![self].df = out,
                                          ![self].seen = file]
                /\ cache' = IF out.fs = "keep" THEN cache
                            ELSE Remove(cache, cachename)
                /\ tmpdir' = IF out.fs = "rename"
                             THEN Put(tmpdir, cachename, file) ELSE tmpdir
    /\ UNCHANGED callVars

NextConcurrent ==
    \E self \in Procs :
        \/ ProcUnlink(self)
        \/ ProcTestCache(self)
        \/ ProcExecute(self)
        \/ ProcOpenCache(self)
        \/ ProcWriteHeader(self)
        \/ ProcWriteTotal(self)
        \/ ProcRead(self)

SpecConcurrent == InitConcurrent /\ [][NextConcurrent]_vars

\* ------------------------------------------------------------------ claims
InWindow == pc \notin {"idle", "loop"}

\* Two finished calls of request, one right after the other, with the same
\* query text, both with cached=True, the first one starting without any
\* entry for its commands.
TwiceCached ==
    /\ prev.ran /\ last.ran
    /\ ~prev.crashed /\ ~last.crashed
    /\ prev.query.start = last.query.start
    /\ prev.query.stop = last.query.stop
    /\ prev.query.date_delta = last.query.date_delta
    /\ prev.query.cached /\ last.query.cached
    /\ prev.fresh

OneExecution ==
    LET commands == Cardinality(Texts(request_pattern, last.query))
        executions == prev.sends + last.sends
    IN  /\ last.sends = 0
        /\ executions <= commands
        /\ commands = 1 => executions = 1
        /\ prev.result.kind \notin Exceptions => executions = commands
        /\ prev.result = last.result

TransportFailed(run) ==
    run.result.kind \in {"RuntimeError", "SSHException", "OSError"}

CompleteEntry(file) ==
    /\ file.eos
    /\ \E transcript \in Transcripts : file.text = CacheText(Columns, transcript)

\* C2: whenever no write is in progress, in particular after a crash, every
\* entry of the cache holds the complete transcript of a finished execution.
C2_EntriesComplete ==
    pc \notin {"write_header", "write_total"} =>
        \A name \in DOMAIN cache : CompleteEntry(cache[name])

\* C3: on a cache hit with cached=True no connection is opened and no
\* command is sent for the window, and the window's result is the parse of
\* the entry that was stored when the window began.
C3_HitUsesNoSession ==
    (InWindow /\ q.cached /\ win.hit) =>
        /\ ~win.sent
        /\ ~win.connected
        /\ pc \in {"unlink", "exists", "read", "next"}
        /\ pc = "next" => df = ReadCache(win.entry)

C3_Witness ==
    /\ pc = "next" /\ q.cached /\ win.hit
    /\ connected
    /\ df.kind = "DataFrame"

\* C4: a window that raises ends the call: the call goes on to no later
\* window, and it raises instead of returning the frames gathered so far.
C4_FailureAborts ==
    /\ (pc # "idle" /\ hist.failedAt # 0) => (pc = "next" /\ i = hist.failedAt)
    /\ (last.ran /\ ~last.crashed /\ last.failedAt # 0) =>
           /\ last.result.kind \in Exceptions
           /\ last.reached = last.failedAt

C4_Witness ==
    /\ last.ran /\ ~last.crashed
    /\ last.failedAt = 2 /\ last.frames = 1
    /\ last.result.kind = "ImpalaError"

\* C5: the transcript "ERROR: disk full" raises ImpalaError with the message
\* "ERROR: disk full" and removes the entry.
C5_ErrorBanner ==
    (pc = "next" /\ win.sent /\ win.received = TError) =>
        /\ df.kind = "ImpalaError"
        /\ df.value \in {<<ERR, " disk full">>, <<ERR, " disk full", NL>>}
        /\ ~Exists(cache, cachename)

\* C6: a transcript with a line that begins with ERROR: always raises
\* ImpalaError.
C6_ErrorNeverSwallowed ==
    (/\ pc = "next" /\ win.sent
     /\ \E k \in 1..Len(ReadLines(win.received)) :
            StartsWithError(ReadLines(win.received)[k])) =>
        df.kind = "ImpalaError"

\* The rows of the file written for the transcript do not parse as a table.
Malformed(transcript) ==
    ReadCsv(ScanLines(ReadLines(CacheText(Columns, transcript)), <<>>, 0).s).error
        = "ParserError"

\* C7: a malformed row raises ImpalaError and moves the file out of the
\* cache into the temporary directory.
C7_MalformedQuarantined ==
    (pc = "next" /\ win.sent /\ Malformed(win.received)) =>
        /\ df.kind = "ImpalaError"
        /\ ~Exists(cache, cachename)
        /\ Exists(tmpdir, cachename)

\* C8: with cached=False the entry of the window is deleted first, the
\* command is executed whatever the cache held, and an entry present after the
\* window holds the transcript of that execution.
C8_ForcedRefresh ==
    (InWindow /\ pc # "unlink" /\ ~q.cached) =>
        /\ pc \in {"exists", "connect", "greet", "send", "recv", "open"} =>
               ~Exists(cache, cachename)
        /\ pc \in {"read", "next"} =>
               /\ win.sent
               /\ Exists(cache, cachename) =>
                      /\ cache[cachename].text = CacheText(Columns, win.received)
                      /\ cache[cachename].eos
               /\ (pc = "read" \/ df.kind \notin Exceptions) =>
                      Exists(cache, cachename)

C8_Witness ==
    /\ pc = "next" /\ ~q.cached
    /\ win.hit /\ win.sent
    /\ Exists(cache, cachename)
    /\ cache[cachename] # win.entry

\* C9: for start < stop the windows tile [start, stop) without gap or
\* overlap, the partition bounds of each window are aligned and enclose its
\* fine bounds, and the command of a window carries these bounds.
C9_WindowsTile ==
    (pc # "idle" /\ q.start < q.stop) =>
        /\ Len(sequence) >= 1
        /\ sequence[1][1] = q.start
        /\ sequence[Len(sequence)][2] = q.stop
        /\ \A k \in 1..Len(sequence) :
               /\ sequence[k][1] < sequence[k][2]
               /\ k < Len(sequence) => sequence[k][2] = sequence[k + 1][1]
               /\ sequence[k][3] <= sequence[k][1]
               /\ sequence[k][4] >= sequence[k][2]
               /\ sequence[k][3] % Hour = 0
               /\ sequence[k][4] % Hour = 0
        /\ (InWindow /\ request_pattern = "basic") =>
               /\ request[7] = sequence[i][1]
               /\ request[9] = sequence[i][2]
               /\ request[3] <= request[7]
               /\ request[5] >= request[9]

C9_Witness ==
    /\ pc = "send" /\ i = 2
    /\ request_pattern = "basic"
    /\ request[3] < request[7]
    /\ q.start < sequence[2][1]

\* C10: for start >= stop there is no window: the call sends nothing,
\* touches no file and returns None.
C10_EmptyRange ==
    /\ (pc # "idle" /\ q.start >= q.stop) =>
           /\ sequence = <<>>
           /\ pc = "loop"
           /\ hist.sends = 0
           /\ ~hist.touched
    /\ (last.ran /\ ~last.crashed /\ last.query.start >= last.query.stop) =>
           /\ last.result.kind = "None"
           /\ last.sends = 0
           /\ ~last.touched

C10_Witness ==
    /\ last.ran /\ ~last.crashed
    /\ last.query.start > last.query.stop
    /\ last.result.kind = "None"
    /\ DOMAIN cache # {}

\* 0 < stop - start < date_delta
ShortRange(query) ==
    /\ 0 < query.stop - query.start
    /\ query.stop - query.start < query.date_delta

\* C11: a range shorter than the window size gives exactly one window, with
\* the fine bounds [start, stop), and the call executes remotely at most once.
C11_SingleWindow ==
    /\ (pc # "idle" /\ ShortRange(q)) =>
           /\ Len(sequence) = 1
           /\ sequence[1][1] = q.start
           /\ sequence[1][2] = q.stop
           /\ hist.sends <= 1
    /\ (last.ran /\ ~last.crashed /\ ShortRange(last.query)) => last.sends <= 1

C11_Witness ==
    /\ last.ran /\ ~last.crashed
    /\ ShortRange(last.query)
    /\ last.query.start > 0
    /\ last.sends = 1

SameProcess == prev.ran /\ last.ran /\ ~prev.crashed /\ ~last.crashed

\* C13: the session connects lazily, at the first cache miss, and at most
\* once: once per call, once over the calls of a process, never when the
\* session is connected already, and never in a call whose windows all hit.
C13_ConnectsLazily ==
    /\ hist.connects <= 1
    /\ pc = "connect" => (~connected /\ IsMiss(cache, cachename))
    /\ hist.misses = 0 => (hist.connects = 0 /\ hist.transports = 0)
    /\ hist.wasConnected => hist.connects = 0
    /\ (last.ran /\ ~last.crashed /\ last.misses = 0) =>
           (last.connects = 0 /\ last.transports = 0)
    /\ SameProcess => prev.connects + last.connects <= 1

C13_Witness ==
    /\ SameProcess
    /\ prev.connects = 1
    /\ last.misses >= 1 /\ last.sends >= 1
    /\ last.connects = 0

\* The texts a file of the cache may hold: nothing, the header line, or the
\* header line and a whole transcript.
WholeTexts ==
    {<<>>, HeaderLine(Columns)} \cup
    {CacheText(Columns, transcript) : transcript \in Transcripts}

ProgramStep ==
    \/ NextWindow
    \/ Return
    \/ Unlink
    \/ TestCache
    \/ ConnectRefuse
    \/ \E why \in {"network", "auth"} : ConnectFail(why)
    \/ Connect
    \/ RecvGreeting
    \/ Send
    \/ SendFail
    \/ RecvResponse
    \/ OpenCache
    \/ WriteHeader
    \/ WriteTotal
    \/ Read
    \/ Next_

\* The call waits for the idle prompt on a channel that is closed.
WaitsOnClosedChannel == pc \in {"greet", "recv"} /\ channel = "closed"

\* C15: when the channel is closed while _connect or _impala waits for the
\* idle prompt, the call goes on to its end (with an exception): it has a
\* step that changes its state.
C15_ClosedChannelEnds ==
    WaitsOnClosedChannel => ENABLED <<ProgramStep>>_vars

\* C16: after a call that ended on a failure of the transport the session is
\* disconnected (self.connected is false), and a later call sends a command
\* only after it has connected again.
C16_FailureDisconnects ==
    (last.ran /\ ~last.crashed /\ TransportFailed(last)) =>
        /\ pc = "idle" => ~connected
        /\ pc \in {"send", "recv"} => hist.connects >= 1

\* impala_username or impala_password is not configured: missing or empty.
CredentialsAbsent == username \in {"", None} \/ password \in {"", None}

\* C17: without credentials connecting fails with the configuration error
\* (RuntimeError in the code), no transport is opened and the session stays
\* as it was.
C17_AbsentCredentialsRefused ==
    CredentialsAbsent =>
        /\ ~connected /\ channel = "none"
        /\ hist.transports = 0
        /\ (last.ran /\ ~last.crashed /\ last.misses >= 1) =>
               /\ last.result.kind = "RuntimeError"
               /\ last.transports = 0

\* Commands sent in the running call whose idle prompt has not arrived yet.
Outstanding == hist.sends - hist.answers

StoredEntry ==
    IF compress THEN GzipFile(CacheText(Columns, win.received), TRUE)
    ELSE PlainFile(CacheText(Columns, win.received))

\* C19: for a window executed remotely the file is written only once the
\* transcript is there in full, the entry is stored when the parser starts,
\* and what the window yields is the parse of the stored entry.
C19_PersistThenParse ==
    /\ pc \in {"open", "write_header", "write_total"} =>
           (win.sent /\ SentinelSeen(total) /\ win.received = total)
    /\ (win.sent /\ pc \in {"send", "recv"}) => ~Exists(cache, cachename)
    /\ (win.sent /\ pc = "read") =>
           (Exists(cache, cachename) /\ cache[cachename] = StoredEntry)
    /\ (win.sent /\ pc = "next") => df = ReadCache(StoredEntry)

C19_Witness ==
    /\ win.sent /\ pc = "next"
    /\ compress
    /\ df.kind = "DataFrame"
    /\ df = ReadCache(StoredEntry)

\* C20: the name of the cache file is a function of the command text of the
\* window and of nothing else: equal texts have equal names and different
\* texts different names, every entry is named after a command text, and in a
\* call that started without entries a window hits only the entry of an
\* earlier window with the very same text.
C20_KeyFromText ==
    /\ \A a \in CommandTexts, b \in CommandTexts :
           Digest(a) = Digest(b) <=> a = b
    /\ InWindow => cachename = Digest(FormatRequest(request_pattern, sequence[i]))
    /\ \A name \in DOMAIN cache : \E text \in CommandTexts : name = Digest(text)
    /\ (InWindow /\ win.hit /\ hist.fresh) =>
           \E k \in 1..(i - 1) :
               FormatRequest(request_pattern, sequence[k]) = request

C20_Witness ==
    /\ InWindow /\ win.hit /\ hist.fresh
    /\ i = 2
    /\ sequence[1] # sequence[2]
    /\ Cardinality(DOMAIN cache) = 1

\* C21: of two processes that run the same command on the same cache
\* directory, each reads a complete entry (the header line and the whole
\* transcript, a finished stream), and both get the same result.
C21_ConcurrentSafe ==
    /\ \A self \in Procs :
           procs[self].pc = "done" =>
               /\ procs[self].df.kind # "FileNotFoundError"
               /\ procs[self].seen.eos
               /\ procs[self].seen.text =
                      CacheText(Columns, procs[self].transcript)
    /\ (procs[1].pc = "done" /\ procs[2].pc = "done") =>
           procs[1].df = procs[2].df

\* The window gave a table (anything but None went into cumul).
NotEmpty(out) == out.kind # "None"

\* C22: a call that returns gives None exactly when every window parsed as
\* None, and otherwise the concatenation, in the order of the windows, of
\* what exactly the other windows gave.
C22_ResultOfRun ==
    [][(pc = "loop" /\ pc' = "idle" /\ result'.kind \notin {"crash"}) =>
           /\ Len(hist.parsed) = Len(sequence)
           /\ result'.kind = "None" <=>
                  \A k \in 1..Len(hist.parsed) : ~NotEmpty(hist.parsed[k])
           /\ result'.kind # "None" =>
                  result' = Concat(SelectSeq(hist.parsed, NotEmpty))]_vars

C22_Witness ==
    /\ last.ran /\ ~last.crashed
    /\ last.result.kind = "DataFrame"
    /\ last.reached = 3
    /\ last.frames = 1

\* The lines of a file as _read_cache reads them.
LinesOf(file) == ReadLines(OpenCacheFile(file))

\* Some box-drawn line of the file (| ... |) holds a comma.
HasBoxComma(file) ==
    \E k \in 1..Len(LinesOf(file)) :
        LET line == LinesOf(file)[k]
        IN  /\ Len(line) >= 2 /\ line[1] = BAR
            /\ \E j \in 2..Len(line) : line[j] = BAR
            /\ \E j \in 1..Len(line) : line[j] = COMMA

DataRecords(file) ==
    LET L == ReadLines(ScanLines(LinesOf(file), <<>>, 0).s)
        recs == SelectSeq(L, LAMBDA line : StripNL(line) # <<>>)
    IN  Tail(recs)

\* C24: the table parsed from an entry has no two equal rows, and it has one
\* row for each different data row of the entry: rows that occur several
\* times are there once, rows that occur once are all there.
C24_DuplicatesCollapse ==
    (pc = "next" /\ win.hit /\ df.kind = "DataFrame") =>
        LET rows == df.value.rows
            records == DataRecords(win.entry)
        IN  /\ \A j \in 1..Len(rows), k \in 1..Len(rows) :
                   rows[j].values = rows[k].values => j = k
            /\ Len(rows) = Cardinality({records[j] : j \in 1..Len(records)})

\* C25: the table returned for a window has the column names this call was
\* given, in their order, also when the window is served from an entry an
\* earlier call wrote with other names.
C25_ColumnsOfCaller ==
    (pc = "next" /\ win.hit /\ df.kind = "DataFrame") =>
        df.value.columns = [c \in 1..Len(Columns) |-> <<Columns[c]>>]

\* C28: the values of the columns icao24 and callsign of a parsed table are
\* the text of the entry: each is a cell as it is written in the file (an
\* identifier of digits, or of digits around an e, included), or the mark
\* of a missing cell; none is a number made from the cell.
Written(file) ==
    LET text == OpenCacheFile(file)
    IN  {text[k] : k \in 1..Len(text)}

IdentifierCells(table) ==
    {table.rows[j].values[c] :
        j \in 1..Len(table.rows),
        c \in {c \in 1..Len(table.columns) :
                  table.columns[c] \in {<<"icao24">>, <<"callsign">>}}}

C28_IdentifiersAreText ==
    (pc = "next" /\ win.hit /\ df.kind = "DataFrame") =>
        \A cell \in IdentifierCells(df.value) :
            \/ cell = <<NaN>>
            \/ \A k \in 1..Len(cell) : cell[k] \in Written(win.entry)

C28_Witness ==
    /\ pc = "next" /\ win.hit /\ df.kind = "DataFrame"
    /\ {<<"a1b2c3">>, <<"0123">>, <<"1e5">>} \subseteq IdentifierCells(df.value)
    /\ \A c \in 1..Len(df.value.columns) :
          df.value.columns[c] = <<"icao24">> =>
              \A j \in 1..Len(df.value.rows) :
                  df.value.rows[j].values[c] # <<NaN>>

\* C26: progress reporting is a passive observer: two calls of request with
\* the same arguments on the same cache process the same windows, submit the
\* same commands and return the same table, whichever progressbar each of
\* them was given.
SameArguments(a, b) ==
    /\ a.query.start = b.query.start
    /\ a.query.stop = b.query.stop
    /\ a.query.date_delta = b.query.date_delta
    /\ a.query.cached = b.query.cached

SameCourse(a, b) ==
    /\ a.result = b.result
    /\ a.reached = b.reached
    /\ a.frames = b.frames
    /\ a.sends = b.sends
    /\ a.misses = b.misses

C26_ProgressPassive ==
    (prev.ran /\ last.ran /\ ~prev.crashed /\ ~last.crashed
        /\ SameArguments(prev, last)) => SameCourse(prev, last)

\* The same for the progress bar enabled or disabled only (tqdm and iter
\* give the items of the list in order): this holds.
BuiltIn(run) == run.query.progressbar \in {"True", "False"}

BuiltInPassive ==
    (prev.ran /\ last.ran /\ ~prev.crashed /\ ~last.crashed
        /\ SameArguments(prev, last) /\ BuiltIn(prev) /\ BuiltIn(last))
    => SameCourse(prev, last)

\* C27: in flightlist, history and rawdata a call with airport set together
\* with departure_airport or arrival_airport raises RuntimeError: it executes
\* no window and sends no command.
Conflict(query) ==
    /\ query.method \in Methods
    /\ query.airport # None
    /\ (query.departure_airport # None \/ query.arrival_airport # None)

C27_AirportConflictRaises ==
    /\ (pc \notin {"idle", "args"}) => ~Conflict(q)
    /\ (last.ran /\ ~last.crashed /\ Conflict(last.query))
          => (last.result.kind = "RuntimeError" /\ last.sends = 0)

\* The same for flightlist and history alone: this holds.
AirportConflictRaisesBut(method) ==
    /\ (pc \notin {"idle", "args"} /\ q.method # method) => ~Conflict(q)
    /\ (last.ran /\ ~last.crashed /\ Conflict(last.query)
           /\ last.query.method # method)
          => (last.result.kind = "RuntimeError" /\ last.sends = 0)

AirportConflictRaisesButRawdata == AirportConflictRaisesBut("rawdata")

\* C29: the loop of reads ends at the first read after which total ends with
\* the prompt, however the bytes of the response are split over the reads:
\* it ends, total is then the whole response, and no byte of the response
\* is left unread.
C29_ReadsWholeResponse ==
    /\ pc = "recv" => ~PromptSeen(total)
    /\ pc # "recv" =>
          /\ pc = "open"
          /\ PromptSeen(total)
          /\ total = win.transcript
          /\ wire = <<>>

\* The same for a response of ASCII characters, where every split of the
\* bytes is a split of the characters: this holds, also when the prompt
\* comes in two reads.
Ascii(text) == \A k \in 1..Len(text) : text[k] # "eacute"

ReadsWholeAsciiResponse ==
    /\ pc = "recv" => ~PromptSeen(total)
    /\ pc = "idle" => last.result.kind = "UnicodeDecodeError"
    /\ (pc # "idle" /\ Ascii(win.transcript)) =>
          /\ pc \in {"recv", "open"}
          /\ pc = "open" =>
                (PromptSeen(total) /\ total = win.transcript /\ wire = <<>>)
          /\ pc = "recv" => total \o wire = win.transcript

PromptInTwoReads ==
    /\ pc = "open" /\ Ascii(win.transcript)
    /\ Len(win.transcript) = Len(PROMPT) + MaxText

\* C30: a command is submitted only on a channel whose greeting has been read
\* up to its prompt, and between two calls a session that counts as
\* connected has nothing of its greeting unread; this also after a connect
\* that ended while it was reading the greeting.
C30_GreetingReadBeforeSend ==
    /\ (pc = "send" /\ channel = "open") => wire = <<>>
    /\ (pc = "idle" /\ connected) => wire = <<>>

\* What is taken for the response of a command is what the remote printed
\* for it.  This fails with C30: the rest of the greeting is taken for it.
ResponseIsOfCommand ==
    pc = "open" => win.received = win.transcript

\* Without an interrupted connect the greeting is read before any command.
GreetingReadUnlessInterrupted ==
    (~(prev.ran /\ prev.result.kind = "KeyboardInterrupt")
       /\ ~(last.ran /\ last.result.kind = "KeyboardInterrupt"))
    => C30_GreetingReadBeforeSend

\* C31: for a transcript without data rows that holds a line beginning with
\* ERROR:, the message of the ImpalaError raised is the lines of the
\* transcript but the last, as the remote sent them and nothing else.
NoDataRows(transcript) ==
    \A k \in 1..Len(ReadLines(transcript)) :
        /\ ~HasTab(ReadLines(transcript)[k])
        /\ ~MatchBox(ReadLines(transcript)[k])

HasErrorLine(transcript) ==
    \E k \in 1..Len(ReadLines(transcript)) :
        StartsWithError(ReadLines(transcript)[k])

AllButLastLine(transcript) ==
    LET lines == ReadLines(transcript)
    IN  Flatten(SubSeq(lines, 1, Len(lines) - 1))

C31_ErrorMessageVerbatim ==
    (pc = "next" /\ win.sent /\ NoDataRows(win.received)
        /\ HasErrorLine(win.received)) =>
        /\ df.kind = "ImpalaError"
        /\ df.value = AllButLastLine(win.received)

\* The message is the lines of the file but the last: the header line that
\* _impala wrote, then those of the transcript.  This holds.
ErrorMessageOfFile ==
    (pc = "next" /\ win.sent /\ NoDataRows(win.received)
        /\ HasErrorLine(win.received)) =>
        /\ df.kind = "ImpalaError"
        /\ df.value = HeaderLine(Columns) \o AllButLastLine(win.received)

\* C32: every line of an entry is a tab-delimited row, a box-drawn row, or
\* neither, and gives at most one row of the table: the table has no more
\* rows than the entry has data lines after its header line.
DataLines(file) ==
    LET lines == Tail(LinesOf(file))
    IN  SelectSeq(lines, LAMBDA line : HasTab(line) \/ MatchBox(line))

C32_OneRowPerLine ==
    (pc = "next" /\ win.hit /\ df.kind = "DataFrame") =>
        Len(df.value.rows) <= Len(DataLines(win.entry))

\* The same for entries without a line that has a tab and the box shape:
\* this holds.
InOneClass(file) ==
    \A k \in 1..Len(LinesOf(file)) :
        ~(HasTab(LinesOf(file)[k]) /\ MatchBox(LinesOf(file)[k]))

OneRowPerLineInOneClass ==
    (pc = "next" /\ win.hit /\ df.kind = "DataFrame" /\ InOneClass(win.entry))
        => Len(df.value.rows) <= Len(DataLines(win.entry))

\* C33: a run can be resumed: while a run is at window i, and when it ends
\* there (by an error, a transport failure or the death of the process), the
\* entries of the windows before i are in the cache and no step changes
\* them; and a call with cached=True sends a command only for a window that
\* has no entry.
KeyOfWindow(j) == Digest(FormatRequest(request_pattern, sequence[j]))

EarlierEntriesKept ==
    pc # "idle" =>
        \A j \in 1..(i - 1) :
            /\ Exists(cache, KeyOfWindow(j))
            /\ Exists(cache', KeyOfWindow(j))
            /\ cache'[KeyOfWindow(j)] = cache[KeyOfWindow(j)]

SendsOnlyWithoutEntry ==
    (pc = "send" /\ pc' = "recv" /\ q.cached) => ~Exists(cache, cachename)

C33_Resumable == [][EarlierEntriesKept /\ SendsOnlyWithoutEntry]_vars

\* The same for a template that gives every window a text of its own: this
\* holds.
ResumableOwnTexts ==
    [][request_pattern = "basic" =>
          (EarlierEntriesKept /\ SendsOnlyWithoutEntry)]_vars

ResumedAfterAbort ==
    /\ prev.ran /\ last.ran /\ ~last.crashed
    /\ prev.crashed \/ prev.result.kind \in Exceptions
    /\ request_pattern = "basic"
    /\ last.query.cached /\ last.reached = 3 /\ last.sends = 1
    /\ last.result.kind = "DataFrame"

\* C36: within one call two different windows never have the same command
\* text, hence never the same cache file, whichever built-in template the
\* call uses.
C36_WindowsHaveOwnKeys ==
    pc # "idle" =>
        \A j \in 1..Len(sequence), k \in 1..Len(sequence) :
            KeyOfWindow(j) = KeyOfWindow(k) => j = k

\* The same for basic_request, which substitutes the bounds of the window:
\* this holds.
OwnKeysWithTimeBounds ==
    (pc # "idle" /\ request_pattern = "basic") =>
        \A j \in 1..Len(sequence), k \in 1..Len(sequence) :
            KeyOfWindow(j) = KeyOfWindow(k) => j = k

\* A window served from the entry written for another window of its call.
ServedFromOtherWindow ==
    /\ pc = "next" /\ i = 2 /\ win.hit /\ hist.fresh /\ hist.sends = 1
    /\ df.kind = "DataFrame"

\* C37: rawdata over several tables returns None when no table gives a row;
\* it does not raise.
NoPieceHasRows == \A k \in 1..Len(pieces) : pieces[k].kind = "None"

C37_NoRowsIsNone ==
    (pc = "done" /\ NoPieceHasRows) => result.kind = "None"

\* With rows from some table the result is the concatenation of the tables
\* that gave rows; and the call for one table returns None without rows.
SomeRowsConcatenated ==
    /\ (pc = "done" /\ ~NoPieceHasRows) =>
          (result.kind = "DataFrame" /\ result = Concat(Candidates(pieces)))
    /\ \A k \in 1..Len(pieces) : pieces[k].kind \in {"None", "DataFrame"}

\* C34: an entry is immutable: a file that is in the cache before and after
\* a step holds the same bytes before and after it.
SameBytes ==
    \A name \in DOMAIN cache \cap DOMAIN cache' :
        DiskBytes(cache'[name]) = DiskBytes(cache[name])

C34_EntriesImmutable == [][SameBytes]_vars

\* Every step but the two writes of _impala leaves the bytes of the files
\* as they are, and the parse of a hit that raises nothing leaves the whole
\* cache as it is: this holds.
ImmutableButForWrites ==
    [][/\ pc \notin {"write_header", "write_total"} => SameBytes
       /\ (pc = "read" /\ win.hit /\ ~Raises(df')) => cache' = cache]_vars

\* The place of a call in its course: the windows left, then the place in
\* the body of the loop, then what is left to read.
Stage == [loop |-> 0, unlink |-> 1, exists |-> 2, connect |-> 3, greet |-> 4,
          send |-> 5, recv |-> 6, open |-> 7, write_header |-> 8,
          write_total |-> 9, read |-> 10, next |-> 11]
StagesLeft(p) == Cardinality(DOMAIN Stage) - Stage[p]
Rank(seq, k, p, w) ==
    ((Len(seq) + 1 - k) * (Cardinality(DOMAIN Stage) + 1) + StagesLeft(p))
        * (Len(Greeting) + MaxRuns * (MaxTime + 1) * (RecvSize + MaxLines + 1))
    + Len(w)

\* Reading the file ends: _read_cache returns a frame or None, or raises.
ReadEnds ==
    ReadCache(ParsedFile(cache, cachename, total)).kind
        \in {"DataFrame", "None"} \cup Exceptions

\* While a call runs it has a step to take.
HasStep ==
    pc # "idle" => IF pc = "read" THEN ReadEnds ELSE ENABLED <<RunStep>>_vars

\* A step of a call ends it or brings it nearer to its end.
Nearer ==
    (pc # "idle" /\ pc' # "idle") =>
        Rank(sequence', i', pc', wire') < Rank(sequence, i, pc, wire)

\* C35: with a remote that ends its greeting and every response with its
\* prompt, a call over its finite list of windows comes to its end (it
\* returns or raises): while it runs it always has a step to take, and every
\* step it takes either ends it or brings it nearer to its end, so that
\* under the fairness of SpecLive no call runs or waits forever.
C35_RunEnds == []HasStep /\ [][Nearer]_vars

C35_Witness ==
    /\ pc = "idle" /\ last.ran /\ ~last.crashed
    /\ last.sends = 2 /\ last.reached = 3
    /\ last.result.kind = "DataFrame"

====
